---- MODULE Spec2Model ----
(***************************************************************************)
(* The prediction-serving gateway of backend/src/api/app.py: API-key       *)
(* admission with a per-key sliding-window rate limiter, request-body      *)
(* validation, the /predict and /batch-predict handlers with inference     *)
(* offloaded to a worker thread, the startup model load and the            *)
(* /model/reload hot swap.                                                 *)
(*                                                                         *)
(* Handlers are coroutines on one event loop.  Every action below is a run *)
(* of handler code between two points where the coroutine can be           *)
(* suspended; the steps of different requests interleave freely, which     *)
(* includes every schedule the event loop can produce.                     *)
(***************************************************************************)
EXTENDS Integers, Sequences, FiniteSets, TLC

\* ---------------------------------------------------------------- bounds
MaxTime == 62          \* the clock stops advancing here
MaxArtifacts == 2       \* distinct loadable artifacts an operator can deploy
ProbDen == 100          \* probabilities are the fractions n / ProbDen
MaxOverrides == 2       \* fields of a candidate record that leave the example
MaxMixed == 3           \* longest batch whose items are chosen freely
MaxWidth == 4           \* most columns a preprocessor's output has
MaxSamples == 3         \* largest evaluation set whose labels are chosen freely

\* ------------------------------------------------------ program constants
RATE_LIMIT_RPM == 2     \* capacity N of one key's window (RATE_LIMIT_RPM)
WINDOW == 60            \* window_start = now - 60
NoModel == 0            \* model = None
NoTime == -1            \* model_metadata has no "loaded_at" entry
MAX_ITEMS == 100        \* most instances a batch body may hold

None == "None"
DevEnvs == {"development", "dev", "test"}
DefaultDevKey == "dev-api-key"

\* ---------------------------------------------------------- input domains
Reqs == {"q1", "q2"}                       \* concurrent client requests
Reloaders == {"r1", "r2"}                  \* concurrent /model/reload calls
AppEnvs == {"development", "production"}   \* APP_ENV
EnvKeys == {None, "secret-key"}            \* API_KEY in the environment
Headers == {None, DefaultDevKey, "secret-key"}   \* X-API-Key (None: absent)
Endpoints == {"predict", "batch"}
TickSteps == {WINDOW \div 2, (WINDOW \div 2) + 1}
Artifacts == 1..MaxArtifacts
\* The artifact file: absent, present but unloadable (artifact 0), or a
\* loadable artifact.
DiskStates == {[exists |-> FALSE, artifact |-> 0]}
              \cup {[exists |-> TRUE, artifact |-> a] : a \in 0..MaxArtifacts}
\* training_metadata.json at startup: absent, unparsable, without a version,
\* or carrying a version.
MetaFiles == {"missing", "corrupt", "noversion", "1.2.0"}
\* The instances of a well-formed batch body, each valid (TRUE) or not.
BatchBodies == {<<TRUE>>, <<FALSE>>, <<TRUE, FALSE>>, <<FALSE, TRUE>>,
                <<TRUE, TRUE>>, <<FALSE, FALSE>>}

VARIABLES
    API_KEY,            \* the key in effect after module import (None: unset)
    API_KEY_env,        \* what the environment held (history)
    APP_ENV,
    log,                \* the kinds of log records emitted so far
    started,            \* the startup event has run
    model,              \* global model: NoModel or the loaded artifact
    model_metadata,     \* global model_metadata
    disk,               \* the file at MODEL_PATH
    _reload_lock,       \* asyncio.Lock: TRUE when held
    _rate_limit_buckets,\* key -> sequence of admission timestamps
    now,                \* time.time()
    pc,                 \* position of each client request
    req,                \* the request being served
    model_ref,          \* the handler's local snapshot reference
    resp,               \* the response under construction / sent
    rpc,                \* position of each reload call
    rresp,              \* status of the reload response
    admitLog,           \* history: timestamps of every admission
    body,               \* the JSON body a client is about to post
    verdict,            \* what request validation made of that body
    artifact_row,       \* what the loaded artifact answers for one row
    entry,              \* the prediction entry built from that answer
    model_calls,        \* the calls of _model_predict made for `body`
    results,            \* what the handler built from the arrays returned
    pipeline,           \* what the explainer finds inside the loaded artifact
    top_contributors,   \* what _build_explanations returned for `body`
    artifact_width,     \* the input width each deployable artifact expects
    labelled,           \* the evaluation set and unit costs handed over
    business_metrics,   \* what calculate_business_metrics made of them
    metrics_history,    \* ModelEvaluator.metrics_history
    log_record_factory, \* logging's process-wide record factory
    old_factory,        \* per request: the factory its middleware saved
    middleware          \* per request: inside ("in") the middleware or not

vars == <<API_KEY, API_KEY_env, APP_ENV, log, started, model, model_metadata,
          disk, _reload_lock, _rate_limit_buckets, now, pc, req, model_ref,
          resp, rpc, rresp, admitLog, body, verdict, artifact_row, entry,
          model_calls, results, pipeline, top_contributors, artifact_width,
          labelled, business_metrics, metrics_history,
          log_record_factory, old_factory, middleware>>

config == <<API_KEY, API_KEY_env, APP_ENV>>
host == <<model, model_metadata>>
limiter == <<_rate_limit_buckets, admitLog>>
clients == <<pc, req, model_ref, resp>>
reloads == <<rpc, rresp, _reload_lock>>
inference == <<model_calls, results>>
explainer == <<pipeline, top_contributors>>
evaluator == <<labelled, business_metrics, metrics_history>>
logging == <<log_record_factory, old_factory, middleware>>
extras == <<artifact_width, evaluator, logging>>
payload == <<body, verdict, artifact_row, entry, inference, explainer,
             extras>>

NoReq == [endpoint |-> None, header |-> None, body_ok |-> FALSE,
          instances |-> << >>]
NoResp == [status |-> 0, detail |-> "", validated |-> FALSE,
           invoked |-> FALSE, snapshot |-> NoModel, explained_by |-> NoModel,
           predictions |-> 0, errors |-> << >>]


\* ------------------------------------------------------------ module import
\* (C9 mutant: the default key is substituted in every environment.)
MutantDefaultKeyEverywhere(envKey, env) ==
    IF envKey = None THEN DefaultDevKey ELSE envKey

\* API_KEY after import: the environment's value, or the default dev key
\* when none is set and APP_ENV is a non-production environment.
ImportedApiKey(envKey, env) ==
    IF envKey = None /\ env \in DevEnvs THEN DefaultDevKey ELSE envKey

\* The warning logged when the default key is substituted.
ImportLog(envKey, env) ==
    IF envKey = None /\ env \in DevEnvs
    THEN {"warning: API_KEY is not set; using a default dev key"}
    ELSE {}

InitialMetadata == [loaded |-> FALSE, version |-> "unknown",
                    loaded_at |-> NoTime, training_metadata |-> None]

\* The service right after module import.
InitService ==
    /\ API_KEY_env \in EnvKeys
    /\ APP_ENV \in AppEnvs
    /\ API_KEY = ImportedApiKey(API_KEY_env, APP_ENV)
    /\ log = ImportLog(API_KEY_env, APP_ENV)
    /\ started = FALSE
    /\ model = NoModel
    /\ model_metadata = InitialMetadata
    /\ disk \in DiskStates
    /\ _reload_lock = FALSE
    /\ _rate_limit_buckets = << >>
    /\ now = 0
    /\ pc = [r \in Reqs |-> "idle"]
    /\ req = [r \in Reqs |-> NoReq]
    /\ model_ref = [r \in Reqs |-> NoModel]
    /\ resp = [r \in Reqs |-> NoResp]
    /\ rpc = [l \in Reloaders |-> "idle"]
    /\ rresp = [l \in Reloaders |-> 0]
    /\ admitLog = << >>

\* No body, artifact answer or prediction entry is under observation.
NoBody == [kind |-> "none"]
NoVerdict == [outcome |-> "none"]
NoRow == [capability |-> "none"]
NoEntry == [via |-> "none"]
NoPipeline == [named_steps |-> "unknown"]

NoLabelled == [y_true |-> << >>, y_pred |-> << >>, cost_fp |-> 0, cost_fn |-> 0]
NoMetrics == [raised |-> "not called"]

\* No evaluation is under way.
NoEvaluation ==
    /\ labelled = NoLabelled
    /\ business_metrics = NoMetrics
    /\ metrics_history = << >>

\* logging's default factory (LogRecord), and the closure a request's
\* middleware installs, which stamps records with that request's id.
BaseFactory == [request_id |-> "none"]
record_factory(r) == [request_id |-> r]

\* No request is inside the middleware.
NoLogging ==
    /\ log_record_factory = BaseFactory
    /\ old_factory = [r \in Reqs |-> BaseFactory]
    /\ middleware = [r \in Reqs |-> "out"]

\* Nothing is known about the inside of the artifacts, no evaluation is
\* under way and no request is inside the middleware.
NoExtras ==
    /\ artifact_width = << >>
    /\ NoEvaluation
    /\ NoLogging

NoPayload ==
    /\ NoExtras
    /\ body = NoBody
    /\ verdict = NoVerdict
    /\ artifact_row = NoRow
    /\ entry = NoEntry
    /\ model_calls = << >>
    /\ results = << >>
    /\ pipeline = NoPipeline
    /\ top_contributors = << >>

Init ==
    /\ InitService
    /\ NoPayload

\* ------------------------------------------------------------------ joblib
\* joblib.load(MODEL_PATH) returns an object exactly when the file exists
\* and unpickles; otherwise it raises.
Loadable(d) == d.exists /\ d.artifact # 0

\* ----------------------------------------------------------------- startup
\* load_model(): everything inside the try block; any exception is logged
\* and swallowed, leaving the assignments made before it.
VersionOf(meta) == IF meta = "noversion" THEN "unknown" ELSE meta

\* (C29 mutant: loaded is set only after the metadata file was read.)
MutantLoadMarksLast(meta) ==
    IF API_KEY = None /\ APP_ENV \notin DevEnvs
    THEN [model |-> model, metadata |-> model_metadata,
          log |-> {"error: Failed to load model"}]
    ELSE IF ~disk.exists
    THEN [model |-> model, metadata |-> model_metadata,
          log |-> {"warning: Model file not found; skeletal mode"}]
    ELSE IF ~Loadable(disk)
    THEN [model |-> model, metadata |-> model_metadata,
          log |-> {"error: Failed to load model"}]
    ELSE IF meta = "corrupt"
    THEN [model |-> disk.artifact, metadata |-> model_metadata,
          log |-> {"error: Failed to load model"}]
    ELSE IF meta = "missing"
    THEN [model |-> disk.artifact,
          metadata |-> [model_metadata EXCEPT !.loaded = TRUE,
                                              !.version = "unknown",
                                              !.loaded_at = now],
          log |-> {"info: ML Model loaded successfully"}]
    ELSE [model |-> disk.artifact,
          metadata |-> [model_metadata EXCEPT !.loaded = TRUE,
                                              !.version = VersionOf(meta),
                                              !.training_metadata = meta,
                                              !.loaded_at = now],
          log |-> {"info: ML Model loaded successfully"}]

load_model(meta) ==
    IF API_KEY = None /\ APP_ENV \notin DevEnvs
    THEN [model |-> model, metadata |-> model_metadata,
          log |-> {"error: Failed to load model"}]
    ELSE IF ~disk.exists
    THEN [model |-> model, metadata |-> model_metadata,
          log |-> {"warning: Model file not found; skeletal mode"}]
    ELSE IF ~Loadable(disk)
    THEN [model |-> model, metadata |-> model_metadata,
          log |-> {"error: Failed to load model"}]
    ELSE IF meta = "corrupt"
    THEN [model |-> disk.artifact,
          metadata |-> [model_metadata EXCEPT !.loaded = TRUE],
          log |-> {"error: Failed to load model"}]
    ELSE IF meta = "missing"
    THEN [model |-> disk.artifact,
          metadata |-> [model_metadata EXCEPT !.loaded = TRUE,
                                              !.version = "unknown",
                                              !.loaded_at = now],
          log |-> {"info: ML Model loaded successfully"}]
    ELSE [model |-> disk.artifact,
          metadata |-> [model_metadata EXCEPT !.loaded = TRUE,
                                              !.version = VersionOf(meta),
                                              !.training_metadata = meta,
                                              !.loaded_at = now],
          log |-> {"info: ML Model loaded successfully"}]

Startup ==
    /\ ~started
    /\ \E meta \in MetaFiles :
          LET out == load_model(meta) IN
          /\ model' = out.model
          /\ model_metadata' = out.metadata
          /\ log' = log \cup out.log
    /\ started' = TRUE
    /\ UNCHANGED <<config, payload, disk, now, limiter, clients, reloads>>

\* ------------------------------------------------------------- environment
\* The operator replaces, corrupts or removes the artifact file.
Deploy ==
    /\ \E d \in DiskStates \ {disk} : disk' = d
    /\ UNCHANGED <<config, payload, log, started, host, now, limiter, clients, reloads>>

Tick ==
    /\ \E d \in TickSteps :
          /\ now + d <= MaxTime
          /\ now' = now + d
    /\ UNCHANGED <<config, payload, log, started, host, disk, limiter, clients,
                   reloads>>


\* ------------------------------------------------------------ rate limiter
\* (C5 mutant: a timestamp exactly WINDOW seconds old is evicted too.)
RECURSIVE MutantPopOldInclusive(_, _)
MutantPopOldInclusive(bucket, window_start) ==
    IF bucket # << >> /\ Head(bucket) <= window_start
    THEN MutantPopOldInclusive(Tail(bucket), window_start)
    ELSE bucket

\* while bucket and bucket[0] < window_start: bucket.pop(0)
RECURSIVE PopOld(_, _)
PopOld(bucket, window_start) ==
    IF bucket # << >> /\ Head(bucket) < window_start
    THEN PopOld(Tail(bucket), window_start)
    ELSE bucket

\* _rate_limit_buckets.setdefault(key, [])
BucketOf(buckets, key) ==
    IF key \in DOMAIN buckets THEN buckets[key] ELSE << >>

\* (C6 mutant: the bucket is a copy that is stored only when the key is new.)
MutantStoreLosesUpdate(buckets, key, bucket) ==
    IF key \in DOMAIN buckets THEN buckets
    ELSE [k \in DOMAIN buckets \cup {key} |->
            IF k = key THEN bucket ELSE buckets[k]]

StoreBucket(buckets, key, bucket) ==
    [k \in DOMAIN buckets \cup {key} |->
        IF k = key THEN bucket ELSE buckets[k]]

\* (C4 mutant: the capacity test is off by one.)
MutantRateLimitOffByOne(buckets, key, t) ==
    LET pruned == PopOld(BucketOf(buckets, key), t - WINDOW) IN
    IF Len(pruned) > RATE_LIMIT_RPM
    THEN [status |-> 429, detail |-> "Rate limit exceeded",
          buckets |-> StoreBucket(buckets, key, pruned)]
    ELSE [status |-> 0, detail |-> "",
          buckets |-> StoreBucket(buckets, key, Append(pruned, t))]

\* The rate-limited branch of get_api_key for a header equal to API_KEY:
\* prune, then reject when the bucket is full, else append the current time.
RateLimit(buckets, key, t) ==
    LET pruned == PopOld(BucketOf(buckets, key), t - WINDOW) IN
    IF Len(pruned) >= RATE_LIMIT_RPM
    THEN [status |-> 429, detail |-> "Rate limit exceeded",
          buckets |-> StoreBucket(buckets, key, pruned)]
    ELSE [status |-> 0, detail |-> "",
          buckets |-> StoreBucket(buckets, key, Append(pruned, t))]

\* (C8 mutant: the header is compared only when it is present.)
MutantAcceptsAbsentHeader(header, buckets, t) ==
    IF API_KEY = None
    THEN [status |-> 503,
          detail |-> "API authentication is not configured",
          buckets |-> buckets, log |-> {}]
    ELSE IF header = API_KEY
    THEN RateLimit(buckets, header, t) @@ [log |-> {}]
    ELSE IF header = None
    THEN [status |-> 0, detail |-> "", buckets |-> buckets, log |-> {}]
    ELSE [status |-> 403, detail |-> "Invalid or missing API Key",
          buckets |-> buckets, log |-> {}]

\* (C28 mutant: the bucket is created before the header is compared.)
MutantBucketBeforeCompare(header, buckets, t) ==
    IF API_KEY = None
    THEN IF APP_ENV \in DevEnvs
         THEN [status |-> 0, detail |-> "", buckets |-> buckets,
               log |-> {"warning: API_KEY is not set; authentication disabled"}]
         ELSE [status |-> 503,
               detail |-> "API authentication is not configured",
               buckets |-> buckets, log |-> {}]
    ELSE IF header = API_KEY
    THEN RateLimit(buckets, header, t) @@ [log |-> {}]
    ELSE [status |-> 403, detail |-> "Invalid or missing API Key",
          buckets |-> StoreBucket(buckets, header, BucketOf(buckets, header)),
          log |-> {}]

\* get_api_key(api_key_header): status 0 means the dependency returned (the
\* request is admitted); any other status is the HTTPException it raised.
get_api_key(header, buckets, t) ==
    IF API_KEY = None
    THEN IF APP_ENV \in DevEnvs
         THEN [status |-> 0, detail |-> "", buckets |-> buckets,
               log |-> {"warning: API_KEY is not set; authentication disabled"}]
         ELSE [status |-> 503,
               detail |-> "API authentication is not configured",
               buckets |-> buckets, log |-> {}]
    ELSE IF header = API_KEY
    THEN RateLimit(buckets, header, t) @@ [log |-> {}]
    ELSE [status |-> 403, detail |-> "Invalid or missing API Key",
          buckets |-> buckets, log |-> {}]

\* ---------------------------------------------------------------- requests
\* (C7 mutant: the body is validated before the dependency runs.)
MutantGateValidatesFirst(header, body_ok, buckets, t) ==
    LET auth == get_api_key(header, buckets, t) IN
    IF ~body_ok
    THEN [status |-> 422, detail |-> "Request validation failed",
          buckets |-> buckets, log |-> {},
          admitted |-> FALSE, validated |-> TRUE]
    ELSE IF auth.status # 0
    THEN [status |-> auth.status, detail |-> auth.detail,
          buckets |-> auth.buckets, log |-> auth.log,
          admitted |-> FALSE, validated |-> TRUE]
    ELSE [status |-> 0, detail |-> "",
          buckets |-> auth.buckets, log |-> auth.log,
          admitted |-> TRUE, validated |-> TRUE]

\* The route's dependency runs before its body parameter is validated
\* (dependencies=[Depends(get_api_key)], then `req: PredictionRequest`):
\* an HTTPException of get_api_key ends the request; only then is the body
\* checked, and a failure answered by validation_exception_handler.
\* status 0: the handler is called.
Gate(header, body_ok, buckets, t) ==
    LET auth == get_api_key(header, buckets, t) IN
    IF auth.status # 0
    THEN [status |-> auth.status, detail |-> auth.detail,
          buckets |-> auth.buckets, log |-> auth.log,
          admitted |-> FALSE, validated |-> FALSE]
    ELSE IF ~body_ok
    THEN [status |-> 422, detail |-> "Request validation failed",
          buckets |-> auth.buckets, log |-> auth.log,
          admitted |-> TRUE, validated |-> TRUE]
    ELSE [status |-> 0, detail |-> "",
          buckets |-> auth.buckets, log |-> auth.log,
          admitted |-> TRUE, validated |-> TRUE]

\* What the schema makes of a well-formed body.
InstancesOf(endpoint) ==
    IF endpoint = "predict" THEN {<< >>} ELSE BatchBodies

ValidIndices(instances) == {i \in DOMAIN instances : instances[i]}

\* (C20 mutant: the loop stops at the first instance that fails.)
MutantErrorsStopAtFirst(instances, i) ==
    IF \A j \in i..Len(instances) : instances[j] THEN << >>
    ELSE <<(CHOOSE j \in i..Len(instances) :
               /\ ~instances[j]
               /\ \A m \in i..(j - 1) : instances[m]) - 1>>

\* The 0-based indices of the instances model_validate rejects, in order.
RECURSIVE ErrorsFrom(_, _)
ErrorsFrom(instances, i) ==
    IF i > Len(instances) THEN << >>
    ELSE IF instances[i] THEN ErrorsFrom(instances, i + 1)
    ELSE <<i - 1>> \o ErrorsFrom(instances, i + 1)

\* (C10 mutant: the handlers do not test the snapshot for None.)
MutantHandlerNoGuard(endpoint, instances, current) ==
    IF endpoint = "batch" /\ ValidIndices(instances) = {}
    THEN [pc |-> "done", status |-> 200, detail |-> "",
          invoked |-> FALSE, errors |-> ErrorsFrom(instances, 1)]
    ELSE [pc |-> "infer", status |-> 0, detail |-> "",
          invoked |-> TRUE,
          errors |-> IF endpoint = "batch"
                     THEN ErrorsFrom(instances, 1) ELSE << >>]

\* predict() and batch_predict() from their first line to the first point
\* where they return, raise or await the worker thread.
HandlerStart(endpoint, instances, current) ==
    IF current = NoModel
    THEN [pc |-> "done", status |-> 503, detail |-> "Model is not loaded",
          invoked |-> FALSE, errors |-> << >>]
    ELSE IF endpoint = "batch" /\ ValidIndices(instances) = {}
    THEN [pc |-> "done", status |-> 200, detail |-> "",
          invoked |-> FALSE, errors |-> ErrorsFrom(instances, 1)]
    ELSE [pc |-> "infer", status |-> 0, detail |-> "",
          invoked |-> TRUE,
          errors |-> IF endpoint = "batch"
                     THEN ErrorsFrom(instances, 1) ELSE << >>]

\* Responses are observed one at a time: a request completes only when no
\* other completed response is still being read.
NoneDone == \A q \in Reqs : pc[q] # "done"

\* A request to /predict or /batch-predict is dispatched: get_api_key, body
\* validation and the handler up to its first suspension run without
\* yielding to the event loop.  body_ok is the outcome of validating the
\* body against the route's schema, inst what the handler finds in a batch.
DispatchCore(r, e, h, body_ok, inst) ==
    /\ started
    /\ pc[r] = "idle"
    /\ NoneDone
    /\ LET gate == Gate(h, body_ok, _rate_limit_buckets, now) IN
       /\ _rate_limit_buckets' = gate.buckets
       /\ log' = log \cup gate.log
       /\ admitLog' = IF gate.admitted THEN Append(admitLog, now)
                      ELSE admitLog
       /\ IF gate.status # 0
          THEN /\ req' = [req EXCEPT ![r] =
                           [endpoint |-> e, header |-> h,
                            body_ok |-> body_ok, instances |-> << >>]]
               /\ pc' = [pc EXCEPT ![r] = "done"]
               /\ resp' = [resp EXCEPT ![r].status = gate.status,
                                       ![r].detail = gate.detail,
                                       ![r].validated = gate.validated]
               /\ model_ref' = model_ref
          ELSE LET h0 == HandlerStart(e, inst, model) IN
               /\ req' = [req EXCEPT ![r] =
                           [endpoint |-> e, header |-> h,
                            body_ok |-> body_ok, instances |-> inst]]
               /\ model_ref' = [model_ref EXCEPT ![r] = model]
               /\ pc' = [pc EXCEPT ![r] = h0.pc]
               /\ resp' = [resp EXCEPT ![r].status = h0.status,
                                       ![r].detail = h0.detail,
                                       ![r].validated = gate.validated,
                                       ![r].invoked = h0.invoked,
                                       ![r].errors = h0.errors]
    /\ UNCHANGED <<config, started, host, disk, now, reloads>>

\* Any client request: the body is known by its validation outcome only,
\* and the instances of a batch matter only when the handler is called.
Dispatch(r) ==
    /\ pc[r] = "idle"
    /\ \E e \in Endpoints, h \in Headers, body_ok \in BOOLEAN :
          \E inst \in IF Gate(h, body_ok, _rate_limit_buckets, now).status # 0
                      THEN {<< >>} ELSE InstancesOf(e) :
             DispatchCore(r, e, h, body_ok, inst)
    /\ UNCHANGED payload

\* _model_predict(model_ref, features): class, probability and confidence
\* all come from the object it is handed.
_model_predict(ref) == ref

\* _build_explanations(features): reads the global `model` at the time it
\* is called; NoModel stands for "no explanation".
_build_explanations == model

\* str(e) of an exception raised by the model call.
ExceptionTexts ==
    {"X has 13 features, but StandardScaler is expecting 12 features"}
NoException == ""
CallOutcomes == {NoException} \cup ExceptionTexts

\* (C24 mutant: the detail carries the text of the exception.)
MutantDetailCarriesException(e) == [status |-> 500, detail |-> e]

\* predict(): except Exception as e: raise HTTPException(status_code=500,
\* detail="Internal prediction error")
prediction_error(e) ==
    [status |-> 500, detail |-> "Internal prediction error"]

\* batch_predict(): except Exception as e: raise HTTPException(
\* status_code=500, detail="Internal batch prediction error")
batch_prediction_error(e) ==
    [status |-> 500, detail |-> "Internal batch prediction error"]

\* predict() from the return of the worker thread to its response; e is
\* the exception raised inside the try block, NoException when none was.
PredictFinishCore(r, e) ==
    /\ pc[r] = "infer"
    /\ req[r].endpoint = "predict"
    /\ NoneDone
    /\ pc' = [pc EXCEPT ![r] = "done"]
    /\ IF e # NoException
       THEN resp' = [resp EXCEPT ![r].status = prediction_error(e).status,
                        ![r].detail = prediction_error(e).detail]
       ELSE resp' = [resp EXCEPT
                        ![r].status = 200,
                        ![r].snapshot = _model_predict(model_ref[r]),
                        ![r].predictions = 1,
                        ![r].explained_by = _build_explanations]
    /\ UNCHANGED <<config, log, started, host, disk, now, limiter, req,
                   model_ref, reloads>>

\* predict(): the worker thread has finished; the model call returned or
\* raised, and the response is built.
PredictFinish(r) ==
    /\ pc[r] = "infer"
    /\ \E e \in CallOutcomes : PredictFinishCore(r, e)
    /\ UNCHANGED payload

\* batch_predict() from the return of the worker thread to its response.
BatchFinishCore(r, e) ==
    /\ pc[r] = "infer"
    /\ req[r].endpoint = "batch"
    /\ NoneDone
    /\ pc' = [pc EXCEPT ![r] = "done"]
    /\ IF e # NoException
       THEN resp' = [resp EXCEPT
                        ![r].status = batch_prediction_error(e).status,
                        ![r].detail = batch_prediction_error(e).detail,
                        ![r].errors = << >>]
       ELSE resp' = [resp EXCEPT
                        ![r].status = 200,
                        ![r].snapshot = _model_predict(model_ref[r]),
                        ![r].predictions =
                            Cardinality(ValidIndices(req[r].instances))]
    /\ UNCHANGED <<config, log, started, host, disk, now, limiter, req,
                   model_ref, reloads>>

\* batch_predict(): the worker thread has finished.
BatchFinish(r) ==
    /\ pc[r] = "infer"
    /\ \E e \in CallOutcomes : BatchFinishCore(r, e)
    /\ UNCHANGED payload

\* The response has been read; the slot serves the next request.
Respond(r) ==
    /\ pc[r] = "done"
    /\ pc' = [pc EXCEPT ![r] = "idle"]
    /\ req' = [req EXCEPT ![r] = NoReq]
    /\ resp' = [resp EXCEPT ![r] = NoResp]
    /\ model_ref' = [model_ref EXCEPT ![r] = NoModel]
    /\ UNCHANGED <<config, payload, log, started, host, disk, now, limiter, reloads>>

\* ------------------------------------------------------------------ health
health_check ==
    [status |-> IF model_metadata.loaded THEN "healthy" ELSE "degraded",
     model_loaded |-> model_metadata.loaded,
     version |-> model_metadata.version]

\* ------------------------------------------------------------------ reload
\* model_reload(): the existence check before the lock.
ReloadBegin(l) ==
    /\ started
    /\ rpc[l] = "idle"
    /\ IF disk.exists
       THEN /\ rpc' = [rpc EXCEPT ![l] = "wait"]
            /\ rresp' = rresp
       ELSE /\ rpc' = [rpc EXCEPT ![l] = "done"]
            /\ rresp' = [rresp EXCEPT ![l] = 404]
    /\ UNCHANGED <<config, payload, log, started, host, disk, now, limiter, clients,
                   _reload_lock>>

\* (C3 mutant: the section is entered without the lock.)
MutantLockIgnored == TRUE

\* async with _reload_lock: entered only when no other reload holds it.
LockFree == ~_reload_lock

ReloadAcquire(l) ==
    /\ rpc[l] = "wait"
    /\ LockFree
    /\ _reload_lock' = TRUE
    /\ rpc' = [rpc EXCEPT ![l] = "locked"]
    /\ UNCHANGED <<config, payload, log, started, host, disk, now, limiter, clients,
                   rresp>>

\* (C2 mutant: the metadata is updated before joblib.load is tried.)
MutantReloadMarksBeforeLoad(d, t) ==
    IF Loadable(d)
    THEN [status |-> 200, model |-> d.artifact,
          metadata |-> [model_metadata EXCEPT !.loaded = TRUE,
                                              !.loaded_at = t]]
    ELSE [status |-> 500, model |-> model,
          metadata |-> [model_metadata EXCEPT !.loaded = TRUE,
                                              !.loaded_at = t]]

\* The body of the `async with`: joblib.load, then the swap of `model` and
\* the metadata updates.  When joblib.load raises nothing has been
\* assigned and the exception becomes a 500 response.
ReloadBody(d, t) ==
    IF Loadable(d)
    THEN [status |-> 200, model |-> d.artifact,
          metadata |-> [model_metadata EXCEPT !.loaded = TRUE,
                                              !.loaded_at = t]]
    ELSE [status |-> 500, model |-> model, metadata |-> model_metadata]

\* The lock is released on the way out of the `async with`, also when its
\* body raised.
ReloadSwap(l) ==
    /\ rpc[l] = "locked"
    /\ _reload_lock' = FALSE
    /\ rpc' = [rpc EXCEPT ![l] = "done"]
    /\ LET out == ReloadBody(disk, now) IN
          /\ model' = out.model
          /\ model_metadata' = out.metadata
          /\ rresp' = [rresp EXCEPT ![l] = out.status]
    /\ UNCHANGED <<config, payload, log, started, disk, now, limiter, clients>>

ReloadDone(l) ==
    /\ rpc[l] = "done"
    /\ rpc' = [rpc EXCEPT ![l] = "idle"]
    /\ rresp' = [rresp EXCEPT ![l] = 0]
    /\ UNCHANGED <<config, payload, log, started, host, disk, now, limiter, clients,
                   _reload_lock>>

\* --------------------------------------------------------------- validator
\* The request schema (PredictionRequest of the service's schemas module).
\* Field values are held in tenths: 2.3 is 23, 145 is 1450.
Fields == {"age", "sex", "cp", "trestbps", "chol", "fbs", "restecg",
           "thalach", "exang", "oldpeak", "slope", "ca", "thal"}

\* Fields whose values are whole numbers (flags).
WholeFields == {"sex", "fbs", "exang"}

\* (C14 mutant: the narrower bounds of the older schema.)
MutantLegacyBounds ==
    [age |-> <<0, 1200>>, sex |-> <<0, 10>>, cp |-> <<0, 30>>,
     trestbps |-> <<800, 2000>>, chol |-> <<1000, 6000>>, fbs |-> <<0, 10>>,
     restecg |-> <<0, 20>>, thalach |-> <<600, 2200>>, exang |-> <<0, 10>>,
     oldpeak |-> <<0, 100>>, slope |-> <<0, 20>>, ca |-> <<0, 40>>,
     thal |-> <<0, 30>>]

\* field -> <<min, max>>, both inclusive.
FieldBounds ==
    [age |-> <<10, 1200>>, sex |-> <<0, 10>>, cp |-> <<0, 30>>,
     trestbps |-> <<500, 3000>>, chol |-> <<500, 8000>>, fbs |-> <<0, 10>>,
     restecg |-> <<0, 20>>, thalach |-> <<300, 2500>>, exang |-> <<0, 10>>,
     oldpeak |-> <<0, 100>>, slope |-> <<0, 20>>, ca |-> <<0, 40>>,
     thal |-> <<0, 30>>]

FieldOk(f, v) ==
    /\ v >= FieldBounds[f][1]
    /\ v <= FieldBounds[f][2]
    /\ f \in WholeFields => v % 10 = 0

\* (C15 mutant: the ST depression is not scaled by 10.)
MutantHemodynamicUnscaled(rec) == rec.trestbps - rec.oldpeak >= 300

\* restingBP - STdepression * 10 >= 30
HemodynamicOk(rec) == rec.trestbps - 10 * rec.oldpeak >= 300

\* age < 18 AND vesselCount > 2 is rejected
PediatricOk(rec) == ~(rec.age < 180 /\ rec.ca > 20)

\* (C16 mutant: the 10% margin is missing.)
MutantHeartRateNoMargin(rec) == ~(rec.thalach > 2200 - rec.age)

\* max_hr = 220 - age; if v > max_hr * 1.1: raise ValueError
HeartRateOk(rec) == ~(10 * rec.thalach > 11 * (2200 - rec.age))

FieldErrors(rec) ==
    {[loc |-> f, msg |-> "out of bounds"] :
        f \in {g \in Fields : ~FieldOk(g, rec[g])}}

RuleErrors(rec) ==
    (IF HemodynamicOk(rec) THEN {}
     ELSE {[loc |-> "", msg |-> "hemodynamic consistency"]})
    \cup (IF PediatricOk(rec) THEN {}
          ELSE {[loc |-> "", msg |-> "pediatric vessel count"]})
    \cup (IF HeartRateOk(rec) THEN {}
          ELSE {[loc |-> "", msg |-> "heart rate ceiling"]})

\* Validation of one candidate record: every per-field check is made and
\* every failure collected; the cross-field rules are evaluated only when
\* no field failed.  The empty set means the record is accepted.
PredictionRequest(rec) ==
    IF FieldErrors(rec) # {} THEN FieldErrors(rec) ELSE RuleErrors(rec)

\* (C17 mutant: only one of the errors is reported.)
MutantReportsFirstOnly(errs) ==
    [outcome |-> "rejected", status |-> 422,
     detail |-> "Request validation failed",
     errors |-> LET x == CHOOSE y \in errs : TRUE IN
                {[field |-> x.loc, message |-> x.msg]}]

\* validation_exception_handler: one 422 response whose "errors" has one
\* {field, message} entry for each error of the RequestValidationError.
validation_exception_handler(errs) ==
    [outcome |-> "rejected", status |-> 422,
     detail |-> "Request validation failed",
     errors |-> {[field |-> x.loc, message |-> x.msg] : x \in errs}]

\* The example record of the schema, all of whose fields are valid.
ExampleRecord ==
    [age |-> 630, sex |-> 10, cp |-> 30, trestbps |-> 1450, chol |-> 2330,
     fbs |-> 10, restecg |-> 0, thalach |-> 1500, exang |-> 0,
     oldpeak |-> 23, slope |-> 0, ca |-> 0, thal |-> 10]

\* test_boundary_values: min_data and max_data.
MinRecord ==
    [age |-> 10, sex |-> 0, cp |-> 0, trestbps |-> 800, chol |-> 1000,
     fbs |-> 0, restecg |-> 0, thalach |-> 600, exang |-> 0,
     oldpeak |-> 0, slope |-> 0, ca |-> 0, thal |-> 0]

MaxRecord ==
    [age |-> 1200, sex |-> 10, cp |-> 30, trestbps |-> 2000, chol |-> 6000,
     fbs |-> 10, restecg |-> 20, thalach |-> 2200, exang |-> 10,
     oldpeak |-> 100, slope |-> 20, ca |-> 40, thal |-> 30]

\* A record every field of which is below its minimum.
LowRecord == [f \in Fields |-> -10]

\* The values tried for each field: just outside and on each bound, and
\* the values at which the cross-field rules switch.
Probes ==
    [age |-> {9, 10, 179, 180, 600, 1200, 1201},
     sex |-> {-10, 0, 5, 10, 20},
     cp |-> {-1, 0, 30, 31},
     trestbps |-> {499, 500, 1290, 1300, 3000, 3001, 3010},
     chol |-> {499, 500, 8000, 8001},
     fbs |-> {-10, 0, 10, 20},
     restecg |-> {-1, 0, 20, 21},
     thalach |-> {299, 300, 1760, 1761, 2200, 2500, 2501},
     exang |-> {-10, 0, 10, 20},
     oldpeak |-> {-1, 0, 100, 101},
     slope |-> {-1, 0, 20, 21},
     ca |-> {-1, 0, 20, 21, 40, 41},
     thal |-> {-1, 0, 30, 31}]

\* FEATURE_NAMES: the order in which the fields are read.
FEATURE_NAMES == <<"age", "sex", "cp", "trestbps", "chol", "fbs", "restecg",
                   "thalach", "exang", "oldpeak", "slope", "ca", "thal">>

\* The records made from rec by replacing at most k of the fields
\* FEATURE_NAMES[i], FEATURE_NAMES[i+1], ... by one of their probes.
RECURSIVE Overridden(_, _, _)
Overridden(rec, i, k) ==
    IF i > Len(FEATURE_NAMES) \/ k = 0 THEN {rec}
    ELSE Overridden(rec, i + 1, k)
         \cup UNION {Overridden([rec EXCEPT ![FEATURE_NAMES[i]] = v],
                                i + 1, k - 1) :
                        v \in Probes[FEATURE_NAMES[i]]
                              \ {rec[FEATURE_NAMES[i]]}}

Records(k) ==
    Overridden(ExampleRecord, 1, k) \cup {MinRecord, MaxRecord, LowRecord}

\* ------------------------------------------------------------ vectorizer
\* (C25 mutant: the fields are read in alphabetical order.)
MutantRowAlphabetical(rec) ==
    LET sorted == <<"age", "ca", "chol", "cp", "exang", "fbs", "oldpeak",
                    "restecg", "sex", "slope", "thal", "thalach",
                    "trestbps">> IN
    [i \in 1..Len(sorted) |-> rec[sorted[i]]]

\* [getattr(req, feature) for feature in FEATURE_NAMES]: one row.  The
\* conversion to float64 is exact for every value a field can hold.
FeatureRow(rec) == [i \in 1..Len(FEATURE_NAMES) |-> rec[FEATURE_NAMES[i]]]

\* _to_feature_vector(req): an array of one row.
_to_feature_vector(rec) == <<FeatureRow(rec)>>

\* batch_predict: the instances that PredictionRequest.model_validate
\* accepts, in the order of the body.
valid_instances(items) ==
    SelectSeq(items, LAMBDA rec : PredictionRequest(rec) = {})

\* batch_predict: matrix, one row for each valid instance.
matrix(valid) == [k \in 1..Len(valid) |-> FeatureRow(valid[k])]

\* One call of _model_predict: the object and the array it is handed.
predict_calls(ref, rec) ==
    <<[ref |-> ref, features |-> _to_feature_vector(rec)]>>

\* (C21 mutant: the model is called for each instance in turn.)
MutantCallPerItem(ref, valid) ==
    [k \in 1..Len(valid) |-> [ref |-> ref, features |-> <<FeatureRow(valid[k])>>]]

\* batch_predict: the single call on the matrix of the valid instances.
batch_calls(ref, valid) ==
    <<[ref |-> ref, features |-> matrix(valid)]>>

\* _model_predict(model_ref, features): row k of each returned array is
\* what the object model_ref computes from row k of features.
model_predict_rows(ref, features) ==
    [k \in 1..Len(features) |-> [by |-> ref, row |-> features[k]]]

\* batch_predict: results, one PredictionResponse for each idx in
\* range(len(valid_instances)), built from entry idx of the arrays.
batch_results(arrays, n) == [idx \in 1..n |-> arrays[idx]]

\* A client posts the record in `body` to /predict.
PredictRecord(r) ==
    /\ pc[r] = "idle"
    /\ body.kind = "record"
    /\ verdict = NoVerdict
    /\ \E h \in Headers :
          LET errs == PredictionRequest(body.record)
              gate == Gate(h, errs = {}, _rate_limit_buckets, now) IN
          /\ DispatchCore(r, "predict", h, errs = {}, << >>)
          /\ verdict' = IF ~gate.validated THEN NoVerdict
                        ELSE IF errs = {} THEN [outcome |-> "accepted"]
                        ELSE validation_exception_handler(errs)
          /\ model_calls' =
                IF gate.status = 0
                   /\ HandlerStart("predict", << >>, model).invoked
                THEN predict_calls(model, body.record)
                ELSE << >>
    /\ UNCHANGED <<body, artifact_row, entry, results, explainer, extras>>

\* ------------------------------------------------------------ batch bodies
\* (C19 mutant: only the upper limit is checked.)
MutantNoMinimum(items) ==
    IF Len(items) > MAX_ITEMS
    THEN {[loc |-> "instances", msg |-> "too many instances"]}
    ELSE {}

\* Validation of a batch body: between 1 and MAX_ITEMS instances.  The
\* instances themselves are validated one by one inside batch_predict.
BatchPredictionRequest(items) ==
    IF Len(items) = 0
    THEN {[loc |-> "instances", msg |-> "At least one instance is required"]}
    ELSE IF Len(items) > MAX_ITEMS
    THEN {[loc |-> "instances", msg |-> "too many instances"]}
    ELSE {}

\* A record with one field out of bounds.
HighPressureRecord == [ExampleRecord EXCEPT !.trestbps = 3010]

\* The items of freely mixed batches: two valid records, one out of bounds,
\* and one within bounds but rejected by a cross-field rule.
ItemRecords == {ExampleRecord, MinRecord, HighPressureRecord, MaxRecord}

Repeated(rec, n) == [i \in 1..n |-> rec]

\* Candidate batch bodies: every mix of up to MaxMixed items, and the sizes
\* at and around the limits, all valid or the last item out of bounds.
CandidateBatches ==
    UNION {[1..n -> ItemRecords] : n \in 1..MaxMixed}
    \cup {Repeated(ExampleRecord, n) : n \in {0, MAX_ITEMS, MAX_ITEMS + 1}}
    \cup {[Repeated(ExampleRecord, n) EXCEPT ![n] = HighPressureRecord] :
             n \in {MAX_ITEMS, MAX_ITEMS + 1}}

\* PredictionRequest.model_validate(instance) for each instance in turn.
ItemsValid(items) ==
    [i \in 1..Len(items) |-> PredictionRequest(items[i]) = {}]

\* A client posts the batch in `body` to /batch-predict.
BatchRecords(r) ==
    /\ pc[r] = "idle"
    /\ body.kind = "batch"
    /\ verdict = NoVerdict
    /\ \E h \in Headers :
          LET errs == BatchPredictionRequest(body.items)
              gate == Gate(h, errs = {}, _rate_limit_buckets, now) IN
          /\ DispatchCore(r, "batch", h, errs = {},
                          IF gate.status = 0 THEN ItemsValid(body.items)
                          ELSE << >>)
          /\ verdict' = IF ~gate.validated THEN NoVerdict
                        ELSE IF errs = {} THEN [outcome |-> "accepted"]
                        ELSE validation_exception_handler(errs)
          /\ model_calls' =
                IF gate.status = 0
                   /\ HandlerStart("batch", ItemsValid(body.items),
                                   model).invoked
                THEN batch_calls(model, valid_instances(body.items))
                ELSE << >>
    /\ UNCHANGED <<body, artifact_row, entry, results, explainer, extras>>

\* batch_predict() returns for the batch in `body`: the arrays of the one
\* model call are turned into the list of results.
BatchReturn(r) ==
    /\ pc[r] = "infer"
    /\ body.kind = "batch"
    /\ model_calls # << >>
    /\ \E e \in CallOutcomes :
          /\ BatchFinishCore(r, e)
          /\ results' =
                IF e # NoException THEN << >>
                ELSE LET call == model_calls[1] IN
                     batch_results(
                         model_predict_rows(call.ref, call.features),
                         Len(valid_instances(body.items)))
    /\ UNCHANGED <<body, verdict, artifact_row, entry, model_calls, explainer,
                   extras>>

\* ----------------------------------------------------------------- scoring
\* A probability p is held as its numerator n, p = n / ProbDen, and compared
\* with a decimal threshold a/10 by cross-multiplication.
Capabilities == {"predict_proba", "predict_only"}

\* What a binary classifier answers for one row: predict() gives the class
\* label and, when the artifact has it, predict_proba() gives the row
\* <<1 - q, q>> with q = positive / ProbDen.
ArtifactRows == [capability : Capabilities, label : {0, 1},
                 positive : 0..ProbDen]

MaxOf(a, b) == IF a >= b THEN a ELSE b

\* (C13 mutant: confidence is the positive-class probability.)
MutantConfidenceIsPositive(row) ==
    IF row.capability = "predict_proba"
    THEN [prediction |-> row.label, probability |-> row.positive,
          confidence |-> row.positive]
    ELSE [prediction |-> row.label, probability |-> row.label * ProbDen,
          confidence |-> ProbDen]

\* _model_predict(model_ref, features), one row of its three arrays:
\* hasattr(model_ref, "predict_proba") selects probs[:, 1] and
\* probs.max(axis=1), else predictions.astype(float) and ones.
model_predict_row(row) ==
    IF row.capability = "predict_proba"
    THEN [prediction |-> row.label, probability |-> row.positive,
          confidence |-> MaxOf(row.positive, ProbDen - row.positive)]
    ELSE [prediction |-> row.label, probability |-> row.label * ProbDen,
          confidence |-> ProbDen]

\* (C11 mutant: the High threshold is inclusive.)
MutantRiskLevelInclusive(probability) ==
    IF 10 * probability >= 7 * ProbDen THEN "High"
    ELSE IF 10 * probability > 4 * ProbDen THEN "Medium"
    ELSE "Low"

\* "High" if probability > 0.7 else "Medium" if probability > 0.4 else "Low"
_risk_level(probability) ==
    IF 10 * probability > 7 * ProbDen THEN "High"
    ELSE IF 10 * probability > 4 * ProbDen THEN "Medium"
    ELSE "Low"

\* scripts/predict.py: lambda x: 'High' if x > 0.7 else 'Medium' if x > 0.4
\* else 'Low', applied to the probability column.
script_risk_level(x) ==
    IF 10 * x > 7 * ProbDen THEN "High"
    ELSE IF 10 * x > 4 * ProbDen THEN "Medium"
    ELSE "Low"

\* (C12 mutant: the tier is taken from the confidence.)
MutantTierFromConfidence(scores) ==
    [prediction |-> scores.prediction,
     probability |-> scores.probability,
     risk_level |-> _risk_level(scores.confidence),
     confidence |-> scores.confidence]

\* predict(): the PredictionResponse built from row 0 of the three arrays.
predict_response(scores) ==
    [prediction |-> scores.prediction,
     probability |-> scores.probability,
     risk_level |-> _risk_level(scores.probability),
     confidence |-> scores.confidence]

\* batch_predict(): one PredictionResponse of `results`.
batch_response(scores) ==
    [prediction |-> scores.prediction,
     probability |-> scores.probability,
     risk_level |-> _risk_level(scores.probability),
     confidence |-> scores.confidence]

\* scripts/predict.py main(): the result row written for one input row;
\* the probability column is predict_proba(df)[:, 1] when the model has
\* it, else predictions.astype(float).
script_row(row) ==
    LET probability == IF row.capability = "predict_proba"
                       THEN row.positive ELSE row.label * ProbDen IN
    [prediction |-> row.label,
     probability |-> probability,
     risk_level |-> script_risk_level(probability)]

\* The artifact has answered a /predict request's row.
ScorePredict ==
    /\ artifact_row # NoRow
    /\ entry = NoEntry
    /\ entry' = [via |-> "predict"]
                 @@ predict_response(model_predict_row(artifact_row))
    /\ UNCHANGED <<config, log, started, host, disk, now, limiter, clients,
                   reloads, body, verdict, artifact_row, inference, explainer,
                   extras>>

\* The artifact has answered one row of a /batch-predict matrix.
ScoreBatch ==
    /\ artifact_row # NoRow
    /\ entry = NoEntry
    /\ entry' = [via |-> "batch"]
                 @@ batch_response(model_predict_row(artifact_row))
    /\ UNCHANGED <<config, log, started, host, disk, now, limiter, clients,
                   reloads, body, verdict, artifact_row, inference, explainer,
                   extras>>

\* The batch prediction script has scored one row of its input file.
ScoreScript ==
    /\ artifact_row # NoRow
    /\ entry = NoEntry
    /\ entry' = [via |-> "script"] @@ script_row(artifact_row)
    /\ UNCHANGED <<config, log, started, host, disk, now, limiter, clients,
                   reloads, body, verdict, artifact_row, inference, explainer,
                   extras>>

\* --------------------------------------------------------------- explainer
\* What _build_explanations looks at inside the loaded artifact:
\*   named_steps   hasattr(model, "named_steps")
\*   preprocessor  named_steps.get("preprocessor") is not None
\*   names         get_feature_names_out: "absent" (no such attribute),
\*                 "listed" (returns out_names) or "raises"
\*   transform     preprocessor.transform(features): "ok" (row 0 of what
\*                 it returns is `transformed`) or "raises"
\*   has_coef      hasattr(core_model, "coef_"), coef its first row
\* Weights and transformed values are whole multiples of one unit, far
\* above the tolerance of np.allclose.
Abs(x) == IF x < 0 THEN -x ELSE x

HasPreprocessor(p) == p.named_steps /\ p.preprocessor

\* feature_names: FEATURE_NAMES unless the preprocessor lists its own.
feature_names(p) ==
    IF HasPreprocessor(p) /\ p.names = "listed" THEN p.out_names
    ELSE FEATURE_NAMES

\* transformed[0]: row 0 of the features, or of what transform returned.
transformed_row(p, features) ==
    IF HasPreprocessor(p) THEN p.transformed ELSE features[1]

\* contrib = np.abs(transformed[0] * coef)
contrib(p, features) ==
    LET t == transformed_row(p, features) IN
    [i \in 1..Len(t) |-> Abs(t[i] * p.coef[i])]

\* The explainer gets as far as sorting the contributions.
ReachesSort(p, features) ==
    /\ model # NoModel
    /\ ~(HasPreprocessor(p) /\ p.names = "raises")
    /\ p.has_coef
    /\ ~(HasPreprocessor(p) /\ p.transform = "raises")
    /\ Len(p.coef) = Len(transformed_row(p, features))
    /\ \E i \in 1..Len(p.coef) : contrib(p, features)[i] # 0

\* np.argsort(c)[-3:]: the last three entries (all of them when there are
\* fewer) of some order of the indices in which c does not decrease; the
\* order of equal entries is not specified.
ArgsortTails(c) ==
    LET n == Len(c)
        m == IF n < 3 THEN n ELSE 3 IN
    {t \in [1..m -> 1..n] :
        /\ \A i, j \in 1..m : i # j => t[i] # t[j]
        /\ \A i \in 1..(m - 1) : c[t[i]] <= c[t[i + 1]]
        /\ \A j \in 1..n :
              (\A i \in 1..m : t[i] # j) => c[j] <= c[t[1]]}

\* (C23 mutant: the last three indices are not reversed.)
MutantTopNotReversed(tail) == tail

\* np.argsort(contrib)[-3:][::-1]
top_indices(tail) ==
    [k \in 1..Len(tail) |-> tail[Len(tail) - k + 1]]

NoExplanation == [raised |-> NoException, value |-> << >>]
ExplainerRaised == [raised |-> "list index out of range", value |-> << >>]

\* _build_explanations(features), given the tail np.argsort produced.
\* Only preprocessor.transform is inside a try; any other exception leaves
\* the function.
build_explanations(p, features, order) ==
    IF model = NoModel THEN NoExplanation
    ELSE IF HasPreprocessor(p) /\ p.names = "raises" THEN ExplainerRaised
    ELSE IF ~p.has_coef THEN NoExplanation
    ELSE IF HasPreprocessor(p) /\ p.transform = "raises" THEN NoExplanation
    ELSE IF Len(p.coef) # Len(transformed_row(p, features))
    THEN NoExplanation
    ELSE IF \A i \in 1..Len(p.coef) : contrib(p, features)[i] = 0
    THEN NoExplanation
    ELSE LET top == top_indices(order)
             names == feature_names(p) IN
         IF \E k \in 1..Len(top) : top[k] > Len(names)
         THEN ExplainerRaised
         ELSE [raised |-> NoException,
               value |-> [k \in 1..Len(top) |->
                            [name |-> names[top[k]],
                             value |-> contrib(p, features)[top[k]]]]]

\* predict() returns for the record in `body`, served by an artifact whose
\* inside is `pipeline`: the model call returns or raises, and when it
\* returned the response is built, _build_explanations included.
PredictExplained(r) ==
    /\ pc[r] = "infer"
    /\ body.kind = "record"
    /\ pipeline # NoPipeline
    /\ model_calls # << >>
    /\ LET call == model_calls[1] IN
       \/ /\ \E e \in ExceptionTexts : PredictFinishCore(r, e)
          /\ UNCHANGED <<results, top_contributors>>
       \/ \E order \in IF ReachesSort(pipeline, call.features)
                        THEN ArgsortTails(contrib(pipeline, call.features))
                        ELSE {<< >>} :
             LET out == build_explanations(pipeline, call.features, order) IN
             /\ PredictFinishCore(r, out.raised)
             /\ results' = model_predict_rows(call.ref, call.features)
             /\ top_contributors' = out.value
    /\ UNCHANGED <<body, verdict, artifact_row, entry, model_calls, pipeline,
                   extras>>

\* get_feature_names_out() of a preprocessor fitted on an array.
ColumnNames == <<"x0", "x1", "x2", "x3", "x4", "x5", "x6", "x7">>

\* A model that is no Pipeline and has no coef_ (a tree ensemble).
PlainModel ==
    [named_steps |-> FALSE, preprocessor |-> FALSE, names |-> "absent",
     out_names |-> << >>, transform |-> "ok", transformed |-> << >>,
     has_coef |-> FALSE, coef |-> << >>]

\* Pipelines of a preprocessor that lists its columns and a linear model,
\* for every width up to `width`, transformed row and row of weights.
LinearPipelines(width) ==
    UNION {{[PlainModel EXCEPT !.named_steps = TRUE, !.preprocessor = TRUE,
                               !.names = "listed",
                               !.out_names = SubSeq(ColumnNames, 1, w),
                               !.transformed = t,
                               !.has_coef = TRUE, !.coef = c] :
               t \in [1..w -> {1, 3}], c \in [1..w -> {-1, 0, 2}]} :
             w \in 1..width}

\* One pipeline of three columns, and the ways in which an artifact can
\* differ from it.
ThreeColumns ==
    [PlainModel EXCEPT !.named_steps = TRUE, !.preprocessor = TRUE,
                       !.names = "listed",
                       !.out_names = SubSeq(ColumnNames, 1, 3),
                       !.transformed = <<1, 3, 1>>,
                       !.has_coef = TRUE, !.coef = <<2, -1, 0>>]

OtherArtifacts ==
    {PlainModel,
     [PlainModel EXCEPT !.has_coef = TRUE,
                        !.coef = [i \in 1..Len(FEATURE_NAMES) |-> 0]],
     [PlainModel EXCEPT !.has_coef = TRUE,
                        !.coef = [i \in 1..Len(FEATURE_NAMES) |-> (i % 3) - 1]],
     [PlainModel EXCEPT !.has_coef = TRUE,
                        !.coef = [i \in 1..(Len(FEATURE_NAMES) - 1) |-> 1]],
     [PlainModel EXCEPT !.named_steps = TRUE, !.has_coef = TRUE,
                        !.coef = [i \in 1..Len(FEATURE_NAMES) |-> 1]],
     [PlainModel EXCEPT !.named_steps = TRUE],
     [ThreeColumns EXCEPT !.has_coef = FALSE, !.coef = << >>],
     [ThreeColumns EXCEPT !.transform = "raises", !.transformed = << >>],
     [ThreeColumns EXCEPT !.names = "raises", !.out_names = << >>],
     [ThreeColumns EXCEPT !.names = "absent", !.out_names = << >>],
     [ThreeColumns EXCEPT !.coef = <<2, -1>>],
     [ThreeColumns EXCEPT
         !.names = "absent", !.out_names = << >>,
         !.transformed = [i \in 1..(Len(FEATURE_NAMES) + 1) |-> i],
         !.coef = [i \in 1..(Len(FEATURE_NAMES) + 1) |-> 1]]}

Pipelines(width) == LinearPipelines(width) \cup OtherArtifacts

\* -------------------------------------------------------------- middleware
\* add_process_time_and_logging up to `await call_next(request)`: the
\* factory in place is saved and the request's own factory installed.
MiddlewareEnter(r) ==
    /\ started
    /\ pc[r] = "idle"
    /\ middleware[r] = "out"
    /\ old_factory' = [old_factory EXCEPT ![r] = log_record_factory]
    /\ log_record_factory' = record_factory(r)
    /\ middleware' = [middleware EXCEPT ![r] = "in"]
    /\ UNCHANGED <<config, log, started, host, disk, now, limiter, clients,
                   reloads, body, verdict, artifact_row, entry, inference,
                   explainer, artifact_width, evaluator>>

\* call_next(request): the route runs inside the middleware.
Handle(r) ==
    /\ middleware[r] = "in"
    /\ Dispatch(r)

\* add_process_time_and_logging after call_next returned: the request is
\* logged and the saved factory is installed again.
MiddlewareExit(r) ==
    /\ pc[r] = "done"
    /\ middleware[r] = "in"
    /\ log' = log \cup {"info: Request"}
    /\ log_record_factory' = old_factory[r]
    /\ middleware' = [middleware EXCEPT ![r] = "out"]
    /\ UNCHANGED <<config, started, host, disk, now, limiter, clients,
                   reloads, body, verdict, artifact_row, entry, inference,
                   explainer, artifact_width, evaluator, old_factory>>

\* The response leaves the service once the middleware has returned it.
Deliver(r) ==
    /\ middleware[r] = "out"
    /\ Respond(r)

\* --------------------------------------------------------------- evaluator
\* sklearn's confusion_matrix(y_true, y_pred) without `labels`: the labels
\* are the sorted values that occur in y_true or y_pred, and entry (i, j)
\* counts the samples of true label i predicted as j.  cm.ravel() lists
\* the entries row by row.
unique_labels(y_true, y_pred) ==
    {y_true[i] : i \in 1..Len(y_true)} \cup {y_pred[i] : i \in 1..Len(y_pred)}

SortedLabels(S) ==
    CHOOSE ls \in [1..Cardinality(S) -> S] :
        \A i \in 1..(Cardinality(S) - 1) : ls[i] < ls[i + 1]

confusion_matrix_ravel(y_true, y_pred) ==
    LET ls == SortedLabels(unique_labels(y_true, y_pred))
        n == Len(ls) IN
    [k \in 1..(n * n) |->
        Cardinality({i \in 1..Len(y_true) :
                        /\ y_true[i] = ls[((k - 1) \div n) + 1]
                        /\ y_pred[i] = ls[((k - 1) % n) + 1]})]

\* ModelEvaluator.calculate_business_metrics: tn, fp, fn, tp = cm.ravel()
\* raises ValueError unless the matrix has four entries.  The average is
\* held as the fraction num / den.
calculate_business_metrics(y_true, y_pred, cost_fp, cost_fn) ==
    LET cm == confusion_matrix_ravel(y_true, y_pred) IN
    IF Len(cm) # 4
    THEN [raised |-> "ValueError: not enough values to unpack"]
    ELSE LET fp == cm[2]
             fn == cm[3]
             total_cost == (fp * cost_fp) + (fn * cost_fn) IN
         [raised |-> "",
          total_cost |-> total_cost,
          avg_cost_per_prediction |-> [num |-> total_cost,
                                       den |-> Len(y_true)],
          false_positives |-> fp,
          false_negatives |-> fn,
          cost_fp |-> cost_fp,
          cost_fn |-> cost_fn]

\* The evaluation script calls calculate_business_metrics on the set in
\* `labelled`.
BusinessMetrics ==
    /\ labelled # NoLabelled
    /\ business_metrics = NoMetrics
    /\ business_metrics' =
          calculate_business_metrics(labelled.y_true, labelled.y_pred,
                                     labelled.cost_fp, labelled.cost_fn)
    /\ UNCHANGED <<config, log, started, host, disk, now, limiter, clients,
                   reloads, body, verdict, artifact_row, entry, inference,
                   explainer, artifact_width, labelled, metrics_history,
                   logging>>

\* n samples with true label t and predicted label q.
Samples(n, t, q) == [i \in 1..n |-> [y_true |-> t, y_pred |-> q]]

\* The evaluation set of the worked example: TN=50, FP=5, FN=2, TP=43.
ExampleEvaluation ==
    Samples(50, 0, 0) \o Samples(5, 0, 1) \o Samples(2, 1, 0)
    \o Samples(43, 1, 1)

\* Evaluation sets: every labelling of 1..n samples, and the example.
EvaluationSets(n) ==
    UNION {[1..k -> [y_true : {0, 1}, y_pred : {0, 1}]] : k \in 1..n}
    \cup {ExampleEvaluation}

\* ---------------------------------------------------------- specifications
\* The whole service.
Next ==
    \/ Startup
    \/ Deploy
    \/ Tick
    \/ \E r \in Reqs : Dispatch(r)
    \/ \E r \in Reqs : PredictFinish(r)
    \/ \E r \in Reqs : BatchFinish(r)
    \/ \E r \in Reqs : Respond(r)
    \/ \E l \in Reloaders : ReloadBegin(l)
    \/ \E l \in Reloaders : ReloadAcquire(l)
    \/ \E l \in Reloaders : ReloadSwap(l)
    \/ \E l \in Reloaders : ReloadDone(l)

Spec == Init /\ [][Next]_vars

\* The specifications below restrict Next to one part of the environment
\* (NextGate, NextServe and NextReload each imply Next), so each of their
\* behaviours is a behaviour of Spec.

\* The admission gate under concurrent clients and a running clock, the
\* operator idle: the artifact stays as it was at startup, nobody reloads.
NextGate ==
    \/ Startup
    \/ Tick
    \/ \E r \in Reqs : Dispatch(r)
    \/ \E r \in Reqs : PredictFinish(r)
    \/ \E r \in Reqs : BatchFinish(r)
    \/ \E r \in Reqs : Respond(r)

SpecGate == Init /\ [][NextGate]_vars

\* One client against an operator who deploys artifacts and reloads.
ServeReqs == {"q1"}
ServeReloaders == {"r1"}

NextServe ==
    \/ Startup
    \/ Deploy
    \/ \E r \in ServeReqs : Dispatch(r)
    \/ \E r \in ServeReqs : PredictFinish(r)
    \/ \E r \in ServeReqs : BatchFinish(r)
    \/ \E r \in ServeReqs : Respond(r)
    \/ \E l \in ServeReloaders : ReloadBegin(l)
    \/ \E l \in ServeReloaders : ReloadAcquire(l)
    \/ \E l \in ServeReloaders : ReloadSwap(l)
    \/ \E l \in ServeReloaders : ReloadDone(l)

SpecServe == Init /\ [][NextServe]_vars

\* Concurrent reloads against deployments and a running clock, no client.
NextReload ==
    \/ Startup
    \/ Deploy
    \/ Tick
    \/ \E l \in Reloaders : ReloadBegin(l)
    \/ \E l \in Reloaders : ReloadAcquire(l)
    \/ \E l \in Reloaders : ReloadSwap(l)
    \/ \E l \in Reloaders : ReloadDone(l)

SpecReload == Init /\ [][NextReload]_vars

\* asyncio.Lock wakes its waiters in arrival order and a coroutine that
\* holds the lock runs to the end of the `async with`: a waiting reload is
\* not overtaken forever, and a reload inside the section leaves it.
SpecReloadFair ==
    /\ SpecReload
    /\ \A l \in Reloaders : SF_vars(ReloadAcquire(l))
    /\ \A l \in Reloaders : WF_vars(ReloadSwap(l))

\* A service that is configured and idle; the scenarios below start from it.
QuietService ==
    /\ API_KEY_env = "secret-key"
    /\ APP_ENV = "production"
    /\ InitService

\* Scoring: any answer of the artifact for one row, turned into a
\* prediction entry by /predict, by /batch-predict or by the script.
InitScore ==
    /\ QuietService
    /\ disk = [exists |-> TRUE, artifact |-> 1]
    /\ body = NoBody
    /\ verdict = NoVerdict
    /\ artifact_row \in ArtifactRows
    /\ entry = NoEntry
    /\ model_calls = << >>
    /\ results = << >>
    /\ pipeline = NoPipeline
    /\ top_contributors = << >>
    /\ NoExtras

NextScore ==
    \/ ScorePredict
    \/ ScoreBatch
    \/ ScoreScript

SpecScore == InitScore /\ [][NextScore]_vars


\* The service after a startup that found the artifact file in state d and
\* no training metadata beside it: load_model() has loaded the artifact,
\* or has logged that the file is missing and left the service skeletal.
RunningService(d) ==
    /\ API_KEY_env = "secret-key"
    /\ APP_ENV = "production"
    /\ API_KEY = ImportedApiKey(API_KEY_env, APP_ENV)
    /\ started = TRUE
    /\ disk = d
    /\ model = IF Loadable(d) THEN d.artifact ELSE NoModel
    /\ model_metadata =
          IF Loadable(d)
          THEN [InitialMetadata EXCEPT !.loaded = TRUE, !.loaded_at = 0]
          ELSE InitialMetadata
    /\ log = ImportLog(API_KEY_env, APP_ENV)
             \cup (IF Loadable(d)
                   THEN {"info: ML Model loaded successfully"}
                   ELSE {"warning: Model file not found; skeletal mode"})
    /\ _reload_lock = FALSE
    /\ _rate_limit_buckets = << >>
    /\ now = 0
    /\ pc = [r \in Reqs |-> "idle"]
    /\ req = [r \in Reqs |-> NoReq]
    /\ model_ref = [r \in Reqs |-> NoModel]
    /\ resp = [r \in Reqs |-> NoResp]
    /\ rpc = [l \in Reloaders |-> "idle"]
    /\ rresp = [l \in Reloaders |-> 0]
    /\ admitLog = << >>

\* The artifact file is absent, or holds artifact 1.
ServedDisks == {[exists |-> FALSE, artifact |-> 0],
                [exists |-> TRUE, artifact |-> 1]}

\* Validation: one client posts one candidate record to /predict.
InitValidate ==
    /\ \E d \in ServedDisks : RunningService(d)
    /\ body \in {[kind |-> "record", record |-> rec] :
                    rec \in Records(MaxOverrides)}
    /\ verdict = NoVerdict
    /\ artifact_row = NoRow
    /\ entry = NoEntry
    /\ model_calls = << >>
    /\ results = << >>
    /\ pipeline = NoPipeline
    /\ top_contributors = << >>
    /\ NoExtras

NextValidate ==
    \/ \E r \in ServeReqs : PredictRecord(r)
    \/ \E r \in ServeReqs : PredictFinish(r)

SpecValidate == InitValidate /\ [][NextValidate]_vars

\* Batches: one client posts one candidate batch to /batch-predict.
InitBatch ==
    /\ \E d \in ServedDisks : RunningService(d)
    /\ body \in {[kind |-> "batch", items |-> b] : b \in CandidateBatches}
    /\ verdict = NoVerdict
    /\ artifact_row = NoRow
    /\ entry = NoEntry
    /\ model_calls = << >>
    /\ results = << >>
    /\ pipeline = NoPipeline
    /\ top_contributors = << >>
    /\ NoExtras

NextBatch ==
    \/ \E r \in ServeReqs : BatchRecords(r)
    \/ \E r \in ServeReqs : BatchFinish(r)

SpecBatch == InitBatch /\ [][NextBatch]_vars

\* Batches against an operator who deploys artifacts and reloads while the
\* batch is being served: the service has loaded artifact 1, and the batch
\* mixes two valid records and one that is out of bounds.
InitBatchReload ==
    /\ RunningService([exists |-> TRUE, artifact |-> 1])
    /\ body \in {[kind |-> "batch", items |-> b] :
                    b \in UNION {[1..n -> {ExampleRecord, MinRecord,
                                          HighPressureRecord}] :
                                    n \in 1..MaxMixed}}
    /\ verdict = NoVerdict
    /\ artifact_row = NoRow
    /\ entry = NoEntry
    /\ model_calls = << >>
    /\ results = << >>
    /\ pipeline = NoPipeline
    /\ top_contributors = << >>
    /\ NoExtras

NextBatchReload ==
    \/ Deploy
    \/ \E r \in ServeReqs : BatchRecords(r)
    \/ \E r \in ServeReqs : BatchReturn(r)
    \/ \E l \in ServeReloaders : ReloadBegin(l)
    \/ \E l \in ServeReloaders : ReloadAcquire(l)
    \/ \E l \in ServeReloaders : ReloadSwap(l)
    \/ \E l \in ServeReloaders : ReloadDone(l)

SpecBatchReload == InitBatchReload /\ [][NextBatchReload]_vars

\* Vectorization: one client posts a record to /predict, or the same
\* record once or twice in a batch to /batch-predict.
VectorizedRecords == Records(1)

InitVectorize ==
    /\ RunningService([exists |-> TRUE, artifact |-> 1])
    /\ body \in {[kind |-> "record", record |-> rec] :
                    rec \in VectorizedRecords}
               \cup {[kind |-> "batch", items |-> <<rec>>] :
                       rec \in VectorizedRecords}
               \cup {[kind |-> "batch", items |-> <<rec, rec>>] :
                       rec \in VectorizedRecords}
    /\ verdict = NoVerdict
    /\ artifact_row = NoRow
    /\ entry = NoEntry
    /\ model_calls = << >>
    /\ results = << >>
    /\ pipeline = NoPipeline
    /\ top_contributors = << >>
    /\ NoExtras

NextVectorize ==
    \/ \E r \in ServeReqs : PredictRecord(r)
    \/ \E r \in ServeReqs : BatchRecords(r)

SpecVectorize == InitVectorize /\ [][NextVectorize]_vars

\* Explanations: one client posts a valid record to /predict while the
\* service has loaded an artifact whose inside is `pipeline`.
InitExplain ==
    /\ RunningService([exists |-> TRUE, artifact |-> 1])
    /\ body \in {[kind |-> "record", record |-> rec] :
                    rec \in {ExampleRecord, MinRecord}}
    /\ verdict = NoVerdict
    /\ artifact_row = NoRow
    /\ entry = NoEntry
    /\ model_calls = << >>
    /\ results = << >>
    /\ pipeline \in Pipelines(MaxWidth)
    /\ top_contributors = << >>
    /\ NoExtras

NextExplain ==
    \/ \E r \in ServeReqs : PredictRecord(r)
    \/ \E r \in ServeReqs : PredictExplained(r)

SpecExplain == InitExplain /\ [][NextExplain]_vars

\* Artifact widths: the operator deploys artifacts that were trained on 12,
\* 13 or 14 input columns; the service starts and is reloaded.
Widths == {Len(FEATURE_NAMES) - 1, Len(FEATURE_NAMES), Len(FEATURE_NAMES) + 1}

InitWidth ==
    /\ QuietService
    /\ body = NoBody
    /\ verdict = NoVerdict
    /\ artifact_row = NoRow
    /\ entry = NoEntry
    /\ model_calls = << >>
    /\ results = << >>
    /\ pipeline = NoPipeline
    /\ top_contributors = << >>
    /\ artifact_width \in [Artifacts -> Widths]
    /\ NoEvaluation
    /\ NoLogging

NextWidth ==
    \/ Startup
    \/ Deploy
    \/ \E l \in ServeReloaders : ReloadBegin(l)
    \/ \E l \in ServeReloaders : ReloadAcquire(l)
    \/ \E l \in ServeReloaders : ReloadSwap(l)
    \/ \E l \in ServeReloaders : ReloadDone(l)

SpecWidth == InitWidth /\ [][NextWidth]_vars

\* Evaluation: the evaluator is handed one labelled set and unit costs.
InitEvaluate ==
    /\ QuietService
    /\ disk = [exists |-> TRUE, artifact |-> 1]
    /\ body = NoBody
    /\ verdict = NoVerdict
    /\ artifact_row = NoRow
    /\ entry = NoEntry
    /\ model_calls = << >>
    /\ results = << >>
    /\ pipeline = NoPipeline
    /\ top_contributors = << >>
    /\ artifact_width = << >>
    /\ \E set \in EvaluationSets(MaxSamples), cfp \in {0, 1, 2}, cfn \in {1, 10} :
          labelled = [y_true |-> [i \in 1..Len(set) |-> set[i].y_true],
                      y_pred |-> [i \in 1..Len(set) |-> set[i].y_pred],
                      cost_fp |-> cfp, cost_fn |-> cfn]
    /\ business_metrics = NoMetrics
    /\ metrics_history \in {<< >>, <<"earlier evaluation">>}
    /\ NoLogging

NextEvaluate == BusinessMetrics

SpecEvaluate == InitEvaluate /\ [][NextEvaluate]_vars

\* Logging: overlapping requests pass through the middleware of a running
\* service.
InitLogging ==
    /\ RunningService([exists |-> TRUE, artifact |-> 1])
    /\ NoPayload

NextLogging ==
    \/ \E r \in Reqs : MiddlewareEnter(r)
    \/ \E r \in Reqs : Handle(r)
    \/ \E r \in Reqs : PredictFinish(r)
    \/ \E r \in Reqs : BatchFinish(r)
    \/ \E r \in Reqs : MiddlewareExit(r)
    \/ \E r \in Reqs : Deliver(r)

SpecLogging == InitLogging /\ [][NextLogging]_vars

\* =================================================================== claims
\* Vocabulary of the claims.
Served(r) == pc[r] # "idle"
Answered(r) == pc[r] = "done"
KeyInEffect == API_KEY # None
BadCredential(r) == req[r].header = None \/ req[r].header # API_KEY
\* The handler of the request was called (it was admitted and its body
\* passed validation).
Handled(r) == resp[r].validated /\ req[r].body_ok
\* Admissions of `history` that are at most WINDOW seconds old at time t.
InWindow(ts, t) == ts >= t - WINDOW
Recent(history, t) == SelectSeq(history, LAMBDA ts : InWindow(ts, t))
Dispatched(r) == pc[r] = "idle" /\ pc'[r] # "idle"
ReloadEnded(l) == rpc[l] # "done" /\ rpc'[l] = "done"

\* C1. Every successful /predict response is computed from one snapshot,
\* the one the handler read when the request started: the prediction
\* (class, probability, confidence) and the top contributors never come
\* from different models, whatever reload completes during the inference.
C1_OneSnapshotPerResponse ==
    \A r \in Reqs :
        (Answered(r) /\ req[r].endpoint = "predict" /\ resp[r].status = 200)
        => /\ resp[r].snapshot = model_ref[r]
           /\ resp[r].explained_by = model_ref[r]

\* C2. A reload that ends in failure (404: file missing, 500: loading
\* raised) leaves the model reference and the whole model_metadata as they
\* were; a reload of a missing or unloadable artifact always ends in
\* failure; and the model reference changes only to a fully loaded artifact
\* together with loaded = TRUE.
C2_FailedReloadChangesNothing ==
    [][\A l \in Reloaders :
          ReloadEnded(l) =>
             /\ rresp'[l] \in {200, 404, 500}
             /\ ~Loadable(disk) => rresp'[l] \in {404, 500}
             /\ rresp'[l] # 200 =>
                   /\ model' = model
                   /\ model_metadata' = model_metadata
             /\ rresp'[l] = 200 =>
                   /\ Loadable(disk)
                   /\ model' = disk.artifact
                   /\ model_metadata'.loaded]_vars

\* A reload has failed with 500 while an earlier artifact is active and
\* was loaded at an earlier time.
C2_Witness ==
    \E l \in Reloaders :
        /\ rpc[l] = "done"
        /\ rresp[l] = 500
        /\ model # NoModel
        /\ model_metadata.loaded
        /\ model_metadata.loaded_at # NoTime
        /\ model_metadata.loaded_at < now

\* C3. At most one reload is inside the load-and-swap section and the lock
\* is held exactly while one is; a reload that waits for the lock stays
\* waiting until it enters the section (it is never dropped), and under
\* the lock's fair hand-over it does enter.
ReloadsInSection == {l \in Reloaders : rpc[l] = "locked"}

C3_MutualExclusion ==
    /\ Cardinality(ReloadsInSection) <= 1
    /\ _reload_lock <=> ReloadsInSection # {}

C3_ReloadsSerialized ==
    /\ []C3_MutualExclusion
    /\ [][\A l \in Reloaders :
             rpc[l] = "wait" => rpc'[l] \in {"wait", "locked"}]_vars
    /\ \A l \in Reloaders : (rpc[l] = "wait") ~> (rpc[l] = "locked")

\* One reload is inside the section while the other waits for the lock.
C3_Witness ==
    \E l1, l2 \in Reloaders :
        /\ l1 # l2
        /\ rpc[l1] = "locked"
        /\ rpc[l2] = "wait"

\* C4. For the key in effect and capacity N = RATE_LIMIT_RPM: an attempt
\* made when exactly N admissions lie within the trailing WINDOW seconds is
\* rejected with 429 and admits nothing; an attempt made when N or more
\* admissions happened and all of them are older than WINDOW seconds is
\* admitted.
C4_WindowCapacity ==
    [][\A r \in Reqs :
          (Dispatched(r) /\ KeyInEffect /\ req'[r].header = API_KEY) =>
             /\ Len(Recent(admitLog, now)) = RATE_LIMIT_RPM =>
                   /\ resp'[r].status = 429
                   /\ resp'[r].detail = "Rate limit exceeded"
                   /\ admitLog' = admitLog
             /\ (Len(admitLog) >= RATE_LIMIT_RPM
                 /\ Recent(admitLog, now) = << >>) =>
                   /\ resp'[r].status # 429
                   /\ admitLog' = Append(admitLog, now)]_vars

\* After N admissions that have all left the window, the next attempt has
\* just been admitted.
C4_Witness ==
    \E r \in Reqs :
        /\ Served(r)
        /\ req[r].header = API_KEY
        /\ resp[r].status # 429
        /\ Len(admitLog) = RATE_LIMIT_RPM + 1
        /\ admitLog[RATE_LIMIT_RPM + 1] = now
        /\ \A i \in 1..RATE_LIMIT_RPM : ~InWindow(admitLog[i], now)

\* C5. Each rate-limit check leaves in the key's window exactly the
\* timestamps that were at most WINDOW seconds old, followed by the current
\* time when the attempt is admitted and by nothing when it is rejected;
\* the attempt is admitted iff fewer than N timestamps were left after the
\* pruning.
C5_PruneThenAdmit ==
    [][\A r \in Reqs :
          (Dispatched(r) /\ KeyInEffect /\ req'[r].header = API_KEY) =>
             LET pruned ==
                     Recent(BucketOf(_rate_limit_buckets, API_KEY), now)
                 admitted == resp'[r].status # 429
             IN  /\ admitted <=> Len(pruned) < RATE_LIMIT_RPM
                 /\ API_KEY \in DOMAIN _rate_limit_buckets'
                 /\ _rate_limit_buckets'[API_KEY] =
                       IF admitted THEN Append(pruned, now) ELSE pruned]_vars

\* An attempt was rejected against a full window whose oldest timestamp is
\* exactly WINDOW seconds old: it was kept, and nothing was appended.
C5_Witness ==
    \E r \in Reqs :
        /\ Answered(r)
        /\ resp[r].status = 429
        /\ Len(BucketOf(_rate_limit_buckets, API_KEY)) = RATE_LIMIT_RPM
        /\ BucketOf(_rate_limit_buckets, API_KEY)[1] = now - WINDOW

\* C6. Whatever requests are in flight, the part of the key's window that
\* lies within the trailing WINDOW seconds is exactly the sequence of the
\* admissions made in that time (none lost, none added), and there are at
\* most N of them.
C6_NoLostUpdates ==
    KeyInEffect =>
       /\ Recent(BucketOf(_rate_limit_buckets, API_KEY), now)
             = Recent(admitLog, now)
       /\ Len(Recent(admitLog, now)) <= RATE_LIMIT_RPM

\* A burst at one instant: N requests were admitted, one of them is still
\* in flight, and a further one has been rejected.
C6_Witness ==
    \E r1, r2 \in Reqs :
        /\ pc[r1] = "infer"
        /\ Answered(r2)
        /\ resp[r2].status = 429
        /\ Len(admitLog) = RATE_LIMIT_RPM
        /\ \A i \in DOMAIN admitLog : admitLog[i] = now

\* C7 as stated. A missing or wrong credential is answered 403 without
\* the body being validated, whatever the body; a 429 is answered without
\* the body being validated; the validator sees only admitted requests.
C7_Original_GateBeforeValidation ==
    \A r \in Reqs :
        Served(r) =>
           /\ (BadCredential(r) /\ ~req[r].body_ok) =>
                 /\ resp[r].status = 403
                 /\ ~resp[r].validated
           /\ resp[r].status = 429 => ~resp[r].validated
           /\ resp[r].validated =>
                 /\ ~BadCredential(r)
                 /\ resp[r].status \notin {403, 429}

\* C7 as amended. The credential check and the rate limiter decide before
\* the body is looked at: with no key in effect every request is answered
\* 503 "API authentication is not configured", with a key in effect a
\* missing or wrong credential is answered 403 and an attempt over the
\* limit 429, each whatever the body and without validation; the body is
\* validated iff the request was admitted, and 422 is answered iff an
\* admitted request has an invalid body.
C7_GateBeforeValidation ==
    [][\A r \in Reqs :
          Dispatched(r) =>
             LET h == req'[r].header
                 over == Len(Recent(admitLog, now)) >= RATE_LIMIT_RPM
                 out == resp'[r]
             IN  /\ ~KeyInEffect =>
                       /\ out.status = 503
                       /\ out.detail = "API authentication is not configured"
                 /\ (KeyInEffect /\ h # API_KEY) => out.status = 403
                 /\ (KeyInEffect /\ h = API_KEY /\ over) => out.status = 429
                 /\ out.validated <=> (KeyInEffect /\ h = API_KEY /\ ~over)
                 /\ out.validated <=> admitLog' = Append(admitLog, now)
                 /\ out.status = 422 <=>
                       (out.validated /\ ~req'[r].body_ok)]_vars

\* A request without credential and with an invalid body was answered 403
\* and never validated.
C7_Witness ==
    \E r \in Reqs :
        /\ Answered(r)
        /\ req[r].header = None
        /\ ~req[r].body_ok
        /\ resp[r].status = 403
        /\ ~resp[r].validated

\* C8 as stated. A request whose credential is absent or differs from the
\* configured key is answered 403 and reaches neither validation nor the
\* model.
C8_Original_AuthRejection ==
    \A r \in Reqs :
        (Served(r) /\ BadCredential(r)) =>
           /\ resp[r].status = 403
           /\ ~resp[r].validated
           /\ ~resp[r].invoked

\* C8 as amended. With a key in effect (configured, or the development
\* default) a request whose credential is absent or differs from it is
\* answered 403 "Invalid or missing API Key", and 403 is answered for
\* nothing else; with no key in effect every request is answered 503 "API
\* authentication is not configured".  In both cases the request reaches
\* neither validation nor the model.
C8_AuthRejection ==
    \A r \in Reqs :
        Served(r) =>
           /\ (KeyInEffect /\ BadCredential(r)) =>
                 /\ Answered(r)
                 /\ resp[r].status = 403
                 /\ resp[r].detail = "Invalid or missing API Key"
           /\ ~KeyInEffect =>
                 /\ Answered(r)
                 /\ resp[r].status = 503
                 /\ resp[r].detail = "API authentication is not configured"
           /\ (BadCredential(r) \/ ~KeyInEffect) =>
                 /\ ~resp[r].validated
                 /\ ~resp[r].invoked
                 /\ model_ref[r] = NoModel
           /\ resp[r].status = 403 => (KeyInEffect /\ BadCredential(r))

\* A well-formed request without credential was answered 403 although a
\* model is loaded.
C8_Witness ==
    \E r \in Reqs :
        /\ Answered(r)
        /\ KeyInEffect
        /\ req[r].header = None
        /\ req[r].body_ok
        /\ model # NoModel
        /\ resp[r].status = 403

\* C9. Every request that reached validation or a handler presented the
\* key in effect.  With no API_KEY in the environment, a non-production
\* APP_ENV has the default key in effect and the substitution was logged
\* as a warning; any other APP_ENV has no key in effect, answers every
\* request 503 "API authentication is not configured" and holds no model
\* after startup.  (Checked with no reload running.)
C9_NoSilentAdmission ==
    /\ \A r \in Reqs :
          (Served(r) /\ (resp[r].validated \/ resp[r].invoked
                         \/ pc[r] = "infer")) =>
             /\ KeyInEffect
             /\ req[r].header = API_KEY
    /\ API_KEY_env # None => API_KEY = API_KEY_env
    /\ (API_KEY_env = None /\ APP_ENV \in DevEnvs) =>
          /\ API_KEY = DefaultDevKey
          /\ "warning: API_KEY is not set; using a default dev key" \in log
    /\ (API_KEY_env = None /\ APP_ENV \notin DevEnvs) =>
          /\ ~KeyInEffect
          /\ model = NoModel
          /\ ~model_metadata.loaded
          /\ \A r \in Reqs :
                Served(r) =>
                   /\ Answered(r)
                   /\ resp[r].status = 503
                   /\ resp[r].detail = "API authentication is not configured"

\* Production without API_KEY: the service started beside a loadable
\* artifact and has rejected a request that presented a key.
C9_Witness ==
    /\ API_KEY_env = None
    /\ APP_ENV = "production"
    /\ started
    /\ Loadable(disk)
    /\ \E r \in Reqs :
          /\ Answered(r)
          /\ req[r].header # None
          /\ resp[r].status = 503

\* C10. While no model is held the health surface reports "degraded", and
\* every request whose handler found no model was answered 503 "Model is
\* not loaded" without any model call.
C10_SkeletalMode ==
    /\ model = NoModel =>
          /\ health_check.status = "degraded"
          /\ ~health_check.model_loaded
    /\ \A r \in Reqs :
          (Served(r) /\ Handled(r) /\ model_ref[r] = NoModel) =>
             /\ Answered(r)
             /\ resp[r].status = 503
             /\ resp[r].detail = "Model is not loaded"
             /\ ~resp[r].invoked

\* A valid, admitted batch request was answered 503 in skeletal mode while
\* a loadable artifact waits on disk.
C10_Witness ==
    \E r \in Reqs :
        /\ Answered(r)
        /\ Handled(r)
        /\ req[r].endpoint = "batch"
        /\ model = NoModel
        /\ Loadable(disk)
        /\ resp[r].status = 503
        /\ resp[r].detail = "Model is not loaded"
        /\ health_check.status = "degraded"

\* C11. For every probability p in [0,1] the tier of a prediction entry is
\* High iff p > 0.7, Medium iff 0.4 < p <= 0.7 and Low iff p <= 0.4, one
\* tier per p; the entries of /predict, of /batch-predict and of the batch
\* prediction script all follow this mapping.
C11_RiskTiers ==
    entry # NoEntry =>
       LET p == entry.probability
           t == entry.risk_level IN
       /\ t \in {"Low", "Medium", "High"}
       /\ t = "High" <=> 10 * p > 7 * ProbDen
       /\ t = "Medium" <=> (10 * p > 4 * ProbDen /\ 10 * p <= 7 * ProbDen)
       /\ t = "Low" <=> 10 * p <= 4 * ProbDen

\* The script has scored a row whose probability is exactly 0.7: Medium.
C11_Witness ==
    /\ entry # NoEntry
    /\ entry.via = "script"
    /\ 10 * entry.probability = 7 * ProbDen
    /\ entry.risk_level = "Medium"

\* C12. Every prediction entry of /predict and of /batch-predict has
\* prediction in {0,1}, probability in [0,1], confidence in [0,1] and the
\* risk level that is the tier of its own probability, for an artifact
\* with and without a probability interface.
TierOf(p) ==
    CHOOSE t \in {"Low", "Medium", "High"} :
        /\ t = "High" <=> 10 * p > 7 * ProbDen
        /\ t = "Low" <=> 10 * p <= 4 * ProbDen

Validated == verdict.outcome # "none"
Rejected == verdict.outcome = "rejected"
Accepted == verdict.outcome = "accepted"
\* The declared interval of every field, in tenths.
DeclaredIntervals ==
    [age |-> 10..1200, sex |-> {0, 10}, cp |-> 0..30,
     trestbps |-> 500..3000, chol |-> 500..8000, fbs |-> {0, 10},
     restecg |-> 0..20, thalach |-> 300..2500, exang |-> {0, 10},
     oldpeak |-> 0..100, slope |-> 0..20, ca |-> 0..40, thal |-> 0..30]
OutOfInterval(rec) == {f \in Fields : rec[f] \notin DeclaredIntervals[f]}
WithinBounds(rec) == OutOfInterval(rec) = {}
FieldsNamed == {e.field : e \in verdict.errors} \cap Fields
RulesNamed == {e.message : e \in {x \in verdict.errors : x.field = ""}}
AnsweredWith(code) ==
    \E r \in Reqs : Answered(r) /\ resp[r].status = code

C18_BoundaryRecordsPass ==
    \A r \in Reqs :
       (/\ Validated
        /\ body.record \in {MinRecord, MaxRecord}
        /\ Answered(r)
        /\ resp[r].status # 500) =>
          /\ resp[r].status \in {200, 503}
          /\ resp[r].status = 503 <=> model_ref[r] = NoModel

FailsValidation(rec) ==
    \/ ~WithinBounds(rec)
    \/ rec.trestbps - 10 * rec.oldpeak < 300
    \/ (rec.age < 180 /\ rec.ca > 20)
    \/ 10 * rec.thalach > 11 * (2200 - rec.age)
FailedPositions(items) ==
    {i \in 1..Len(items) : FailsValidation(items[i])}

DeclaredOrder == <<"age", "sex", "cp", "trestbps", "chol", "fbs", "restecg",
                   "thalach", "exang", "oldpeak", "slope", "ca", "thal">>
RowOf(rec) == [i \in 1..13 |-> rec[DeclaredOrder[i]]]
ValidItems(items) == SelectSeq(items, LAMBDA rec : ~FailsValidation(rec))

ModelCallReturned == results # << >>

C22_ExplainerNeverFailsPrediction ==
    \A r \in Reqs :
       (/\ Answered(r)
        /\ Accepted
        /\ body.kind = "record"
        /\ model_ref[r] # NoModel
        /\ ModelCallReturned) =>
          /\ resp[r].status = 200
          /\ resp[r].predictions = 1

\* C23. What the explainer returns in a successful /predict response is
\* the (at most 3) features with the largest |transformedFeature * weight|,
\* in non-increasing order of that contribution, each with the name of its
\* own column; and it returns nothing when the model has no linear
\* weights, when the preprocessor's transform fails, when the number of
\* weights differs from the number of transformed features, and when all
\* contributions are zero.
Preprocessed == pipeline.named_steps /\ pipeline.preprocessor
Transformed ==
    IF Preprocessed THEN pipeline.transformed ELSE RowOf(body.record)
ColumnNamesInUse ==
    IF Preprocessed /\ pipeline.names = "listed" THEN pipeline.out_names
    ELSE DeclaredOrder
Contribution(i) == Abs(Transformed[i] * pipeline.coef[i])
WidthsAgree == Len(pipeline.coef) = Len(Transformed)

C23_TopThreeContributions ==
    \A r \in Reqs :
       (/\ Answered(r)
        /\ body.kind = "record"
        /\ resp[r].status = 200) =>
          LET tc == top_contributors
              n == Len(Transformed) IN
          /\ tc # << >> =>
                /\ pipeline.has_coef
                /\ WidthsAgree
                /\ Len(tc) = (IF n < 3 THEN n ELSE 3)
                /\ \A k \in 1..(Len(tc) - 1) : tc[k].value >= tc[k + 1].value
                /\ \E idx \in [1..Len(tc) -> 1..n] :
                      /\ \A j, k \in 1..Len(tc) : j # k => idx[j] # idx[k]
                      /\ \A k \in 1..Len(tc) :
                            /\ tc[k].name = ColumnNamesInUse[idx[k]]
                            /\ tc[k].value = Contribution(idx[k])
                      /\ \A i \in 1..n :
                            (\A k \in 1..Len(tc) : idx[k] # i) =>
                               Contribution(i) <= tc[Len(tc)].value
          /\ ~pipeline.has_coef => tc = << >>
          /\ (Preprocessed /\ pipeline.transform = "raises") => tc = << >>
          /\ ~WidthsAgree => tc = << >>
          /\ (WidthsAgree /\ \A i \in 1..n : Contribution(i) = 0) =>
                tc = << >>

\* Of four columns the three with the contributions 6, 3 and 2 have been
\* returned in that order, the largest being that of the last column.
C23_Witness ==
    /\ body.kind = "record"
    /\ \E r \in Reqs : Answered(r) /\ resp[r].status = 200
    /\ pipeline # NoPipeline
    /\ Len(pipeline.coef) = 4
    /\ Len(top_contributors) = 3
    /\ top_contributors[1] = [name |-> "x3", value |-> 6]
    /\ top_contributors[2].value = 3
    /\ top_contributors[3].value = 2

HandedOver == model_calls # << >>

C25_VectorizationIsPositional ==
    /\ (HandedOver /\ body.kind = "record") =>
          /\ Len(model_calls) = 1
          /\ Len(model_calls[1].features) = 1
          /\ Len(model_calls[1].features[1]) = 13
          /\ \A i \in 1..13 :
                model_calls[1].features[1][i] = body.record[DeclaredOrder[i]]
    /\ (HandedOver /\ body.kind = "batch") =>
          LET rows == model_calls[1].features
              valid == ValidItems(body.items) IN
          /\ Len(rows) = Len(valid)
          /\ \A k \in 1..Len(rows) :
                /\ Len(rows[k]) = 13
                /\ \A i \in 1..13 : rows[k][i] = valid[k][DeclaredOrder[i]]
          /\ \A j, k \in 1..Len(rows) : valid[j] = valid[k] => rows[j] = rows[k]

\* The same record was posted twice in one batch: both rows are the same,
\* with the blood pressure in the fourth place and the ST depression of 2.3
\* in the tenth.
C25_Witness ==
    /\ HandedOver
    /\ body.kind = "batch"
    /\ Len(body.items) = 2
    /\ Len(model_calls[1].features) = 2
    /\ model_calls[1].features[1] = model_calls[1].features[2]
    /\ model_calls[1].features[1][4] = 1450
    /\ model_calls[1].features[1][10] = 23

\* C26. An artifact whose expected input width differs from the 13
\* declared features never becomes the active model: neither the startup
\* load nor a reload installs it.
C26_MismatchNeverActive ==
    model # NoModel => artifact_width[model] = 13

\* C27. For every evaluation set of N >= 1 binary labels and predictions
\* and any unit costs, calculate_business_metrics returns the counts FP
\* (true 0, predicted 1) and FN (true 1, predicted 0), total_cost =
\* FP * cost_fp + FN * cost_fn and avg_cost_per_prediction = total_cost / N,
\* and leaves the evaluator's state as it was.
CountOf(t, q) ==
    Cardinality({i \in 1..Len(labelled.y_true) :
                    labelled.y_true[i] = t /\ labelled.y_pred[i] = q})

C27_BusinessCost ==
    business_metrics # NoMetrics =>
       /\ business_metrics.raised = ""
       /\ business_metrics.false_positives = CountOf(0, 1)
       /\ business_metrics.false_negatives = CountOf(1, 0)
       /\ business_metrics.total_cost =
             CountOf(0, 1) * labelled.cost_fp + CountOf(1, 0) * labelled.cost_fn
       /\ business_metrics.avg_cost_per_prediction.num * Len(labelled.y_true)
             = business_metrics.total_cost
               * business_metrics.avg_cost_per_prediction.den
       /\ metrics_history \in {<< >>, <<"earlier evaluation">>}

\* C28. In every reachable state each credential's rate window holds at
\* most N = RATE_LIMIT_RPM timestamps in non-decreasing order, and windows
\* exist only for the credential that passed authentication (a rejected
\* header never adds one); immediately after an admission check for the
\* credential its window holds no timestamp older than WINDOW seconds.
NonDecreasing(bucket) ==
    \A i \in 1..(Len(bucket) - 1) : bucket[i] <= bucket[i + 1]

WindowsWellFormed ==
    \A k \in DOMAIN _rate_limit_buckets :
        /\ API_KEY # None
        /\ k = API_KEY
        /\ Len(_rate_limit_buckets[k]) <= RATE_LIMIT_RPM
        /\ NonDecreasing(_rate_limit_buckets[k])

CheckedCredential(r) ==
    Dispatched(r) /\ API_KEY # None /\ req'[r].header = API_KEY

AdmissionCheck ==
    /\ \A r \in Reqs :
          CheckedCredential(r) =>
             /\ API_KEY \in DOMAIN _rate_limit_buckets'
             /\ \A i \in DOMAIN _rate_limit_buckets'[API_KEY] :
                   _rate_limit_buckets'[API_KEY][i] >= now - WINDOW
    /\ \A q \in Reqs :
          (Dispatched(q) /\ ~CheckedCredential(q)) =>
             _rate_limit_buckets' = _rate_limit_buckets

C28_RateWindows == []WindowsWellFormed /\ [][AdmissionCheck]_vars

\* The window is full with two different timestamps after an older one
\* was evicted, and a request with a wrong key has just been refused.
C28_Witness ==
    /\ API_KEY # None
    /\ API_KEY \in DOMAIN _rate_limit_buckets
    /\ Len(_rate_limit_buckets[API_KEY]) = RATE_LIMIT_RPM
    /\ _rate_limit_buckets[API_KEY][1]
          < _rate_limit_buckets[API_KEY][RATE_LIMIT_RPM]
    /\ Len(admitLog) > RATE_LIMIT_RPM
    /\ admitLog[1] < now - WINDOW
    /\ \E r \in Reqs : pc[r] = "done" /\ resp[r].status = 403

\* C29. After startup and after any sequence of successful and failed
\* reloads, model_metadata.loaded is true iff a model object is held, and
\* /health reports "healthy" exactly when loaded is true; this holds in
\* every state a reader can observe between two operations.
ModelHeld == model # NoModel

C29_LoadedIffHeld ==
    /\ model_metadata.loaded <=> ModelHeld
    /\ health_check.status = "healthy" <=> model_metadata.loaded
    /\ health_check.model_loaded <=> ModelHeld

\* Two reloads have ended, one with success and one with failure, and the
\* service holds a model and reports healthy.
C29_Witness ==
    /\ started
    /\ ModelHeld
    /\ health_check.status = "healthy"
    /\ \E l1, l2 \in Reloaders :
          /\ rpc[l1] = "done" /\ rresp[l1] = 200
          /\ rpc[l2] = "done" /\ rresp[l2] \in {404, 500}

\* C30. Under every interleaving of overlapping requests, once every
\* request has left the middleware the process-wide log record factory is
\* the one that was installed before any request started: no request's
\* factory stays installed after its request has finished.
AllRequestsCompleted == \A r \in Reqs : middleware[r] = "out"

C30_FactoryRestored ==
    AllRequestsCompleted => log_record_factory = BaseFactory

====
